---- MODULE Spec2Model ----
(* A model of fibonacci_race (src/src/main.rs): five Fibonacci solvers over    *)
(* u128 and the timing harness of main that runs them three times.             *)
(*                                                                             *)
(* u128 values are kept at their width: a value is a tuple of NumLimbs limbs   *)
(* of 16 bits, least significant first, and every addition reports whether it  *)
(* left the 128 bits. Indices (fib_num) stay below 2^31 in every run of the    *)
(* model and are held as naturals; a subtraction on an index reports whether   *)
(* it would go below zero.                                                     *)
EXTENDS Integers, Sequences, FiniteSets, TLC

\* ---------------------------------------------------------------- bounds ----
\* backtrace_fib is exponential: it is evaluated for indices up to MaxNaive.
MaxNaive == 20
\* backtrace_memo_fib is tried on every subset of 0..n-1 for n up to MaxPre.
MaxPre == 5
\* Indices tried above the range main admits.
MaxBeyond == 1
\* Positional arguments given to main.
MaxArgs == 2
\* Top-level calls of cached_fib in a free sequence of calls, and how far
\* their arguments go past the capacity of the cache.
MaxTopCalls == 2
MaxOver == 2

\* ------------------------------------------------------ program constants ----
LowerLimit == 2
UpperLimit == 186
\* A capacity one entry too large (sensitivity of C7).
CacheSizeOffByOne == 200 + 1
CacheSize == 200

\* ------------------------------------------------------------------ u128 ----
\* 128 bits as eight limbs of 16 bits, least significant first.
Zero == <<0, 0, 0, 0, 0, 0, 0, 0>>
NumLimbs == Len(Zero)
Base == 2 ^ 16
Limbs == 1 .. NumLimbs

\* The u128 of a natural below 2^31.
U128(x) == [Zero EXCEPT ![1] = x % Base, ![2] = x \div Base]

\* Limbs i.. of a + b with carry c; ovf is the carry out of the last limb.
RECURSIVE AddLimbs(_, _, _, _)
AddLimbs(a, b, i, c) ==
    IF i > NumLimbs THEN [val |-> << >>, ovf |-> c > 0]
    ELSE LET s == a[i] + b[i] + c
             r == AddLimbs(a, b, i + 1, s \div Base)
         IN  [val |-> <<s % Base>> \o r.val, ovf |-> r.ovf]

\* a + b on u128: the wrapped sum and whether the true sum left the width.
\* Rust: a build with overflow checks panics where ovf is set, one without
\* keeps val.
AddU128(a, b) == AddLimbs(a, b, 1, 0)

\* Limbs i.. of a * m + c, for a small multiplier m.
RECURSIVE MulLimbs(_, _, _, _)
MulLimbs(a, m, i, c) ==
    IF i > NumLimbs THEN [val |-> << >>, ovf |-> c > 0]
    ELSE LET s == a[i] * m + c
             r == MulLimbs(a, m, i + 1, s \div Base)
         IN  [val |-> <<s % Base>> \o r.val, ovf |-> r.ovf]

\* value * m + d with checked_mul and checked_add, as from_str_radix does.
MulAddSmall(a, m, d) == MulLimbs(a, m, 1, d)

\* a < b on u128: decided at the most significant limb where they differ.
LtU128(a, b) ==
    \E i \in Limbs : a[i] < b[i] /\ \A j \in Limbs : j > i => a[j] = b[j]

\* The natural of a u128 that fits two limbs (below 2^31).
FitsIndex(a) == (\A i \in Limbs : i > 2 => a[i] = 0) /\ a[2] < Base \div 2
ToIndex(a) == a[1] + a[2] * Base

\* -------------------------------------------------- str::parse::<u128> ----
DigitChars == <<"0", "1", "2", "3", "4", "5", "6", "7", "8", "9">>
IsDigit(ch) == \E d \in 1 .. Len(DigitChars) : DigitChars[d] = ch
DigitOf(ch) == (CHOOSE d \in 1 .. Len(DigitChars) : DigitChars[d] = ch) - 1

\* One more character of the text: result = result * 10 + digit, checked.
\* err names the ParseIntError kind.
ParseChar(st, ch) ==
    IF ~st.ok THEN st
    ELSE IF ~IsDigit(ch) THEN [ok |-> FALSE, val |-> Zero, err |-> "InvalidDigit"]
    ELSE LET r == MulAddSmall(st.val, 10, DigitOf(ch))
         IN  IF r.ovf THEN [ok |-> FALSE, val |-> Zero, err |-> "PosOverflow"]
             ELSE [ok |-> TRUE, val |-> r.val, err |-> "none"]

\* The characters lo..hi of the text, left to right; the first half is
\* evaluated before the second starts.
RECURSIVE ParseRange(_, _, _, _)
ParseRange(text, lo, hi, st) ==
    IF lo > hi THEN st
    ELSE IF lo = hi THEN ParseChar(st, text[lo])
    ELSE LET mid == (lo + hi) \div 2
             half == ParseRange(text, lo, mid, st)
         IN  IF half.ok \in BOOLEAN THEN ParseRange(text, mid + 1, hi, half) ELSE half
ParseDigits(text, from) ==
    ParseRange(text, from, Len(text), [ok |-> TRUE, val |-> Zero, err |-> "none"])

\* args[1].parse::<u128>(): an optional leading "+", then decimal digits; the
\* empty string, a lone sign, any other character and a value of 2^128 or
\* more are errors. No "-" for an unsigned type, no trimming of blanks.
ParseU128(text) ==
    IF Len(text) = 0 THEN [ok |-> FALSE, val |-> Zero, err |-> "Empty"]
    ELSE IF Len(text) = 1 /\ text[1] \in {"+", "-"}
         THEN [ok |-> FALSE, val |-> Zero, err |-> "InvalidDigit"]
    ELSE IF text[1] = "+" THEN ParseDigits(text, 2)
    ELSE ParseDigits(text, 1)

\* ------------------------------------------------------------ HashMap ----
EmptyMap == << >>
Put(map, k, v) == (k :> v) @@ map
Restrict(map, keys) == [x \in DOMAIN map \cap keys |-> map[x]]

\* ------------------------------------------------------- backtrace_fib ----
\* Double recursion without a table. val is the wrapped result, ovf whether
\* any addition in the call tree left the width.
NaiveAdd(x, y) ==
    IF x.ovf \/ y.ovf THEN [val |-> AddU128(x.val, y.val).val, ovf |-> TRUE]
    ELSE AddU128(x.val, y.val)
RECURSIVE BacktraceFibRec(_)
BacktraceFibRec(n) ==
    IF n = 0 \/ n = 1 THEN [val |-> U128(n), ovf |-> FALSE]
    ELSE NaiveAdd(BacktraceFibRec(n - 1), BacktraceFibRec(n - 2))
BacktraceFib(n) == BacktraceFibRec(n)

\* --------------------------------------------------------- dynamic_fib ----
\* A faulty pass that adds the previous entry twice (sensitivity of C2).
DynamicIterDoubled(st, n) ==
    IF st.i > n THEN st
    ELSE LET s == AddU128(st.memo[st.i - 1], st.memo[st.i - 1])
         IN  [memo |-> Put(st.memo, st.i, s.val), i |-> st.i + 1,
              ovf |-> st.ovf \/ s.ovf]

\* One pass of the loop for i in 2..=n: the entry for i from the two before.
DynamicIter(st, n) ==
    IF st.i > n THEN st
    ELSE LET s == AddU128(st.memo[st.i - 1], st.memo[st.i - 2])
         IN  [memo |-> Put(st.memo, st.i, s.val), i |-> st.i + 1,
              ovf |-> st.ovf \/ s.ovf]

\* cnt passes of the loop. The first half is evaluated (the test on half.i
\* does that) before the second starts, which keeps the evaluation shallow.
RECURSIVE DynamicLoop(_, _, _)
DynamicLoop(st, n, cnt) ==
    IF cnt = 0 THEN st
    ELSE IF cnt = 1 THEN DynamicIter(st, n)
    ELSE LET half == DynamicLoop(st, n, cnt \div 2)
         IN  IF half.i >= 2 THEN DynamicLoop(half, n, cnt - cnt \div 2) ELSE half

\* dynamic_fib(n): val is memo[n], memo the table at return, work the number
\* of entries the loop inserted.
DynamicFib(n) ==
    LET seeded == Put(Put(EmptyMap, 0, U128(0)), 1, U128(1))
        start == [memo |-> seeded, i |-> 2, ovf |-> FALSE]
        run == IF n = 0 \/ n = 1 THEN start ELSE DynamicLoop(start, n, n - 1)
    IN  [val |-> run.memo[n], ovf |-> run.ovf, memo |-> run.memo,
         work |-> run.i - 2]

\* -------------------------------------------------- better_dynamic_fib ----
\* One pass of the loop for _ in 2..=n: memo = (memo.1, memo.0 + memo.1).
BetterIter(st, n) ==
    IF st.i > n THEN st
    ELSE LET s == AddU128(st.m0, st.m1)
         IN  [m0 |-> st.m1, m1 |-> s.val, i |-> st.i + 1,
              ovf |-> st.ovf \/ s.ovf]

RECURSIVE BetterLoop(_, _, _)
BetterLoop(st, n, cnt) ==
    IF cnt = 0 THEN st
    ELSE IF cnt = 1 THEN BetterIter(st, n)
    ELSE LET half == BetterLoop(st, n, cnt \div 2)
         IN  IF half.i >= 2 THEN BetterLoop(half, n, cnt - cnt \div 2) ELSE half

\* A faulty variant that returns memo.0 (sensitivity of C1).
BetterDynamicFibStale(n) ==
    LET start == [m0 |-> U128(0), m1 |-> U128(1), i |-> 2, ovf |-> FALSE]
        run == IF n = 0 \/ n = 1 THEN start ELSE BetterLoop(start, n, n - 1)
    IN  [val |-> IF n = 0 \/ n = 1 THEN U128(n) ELSE run.m0,
         ovf |-> run.ovf, work |-> run.i - 2]

\* better_dynamic_fib(n): val is fib_num for 0 and 1 and memo.1 otherwise.
BetterDynamicFib(n) ==
    LET start == [m0 |-> U128(0), m1 |-> U128(1), i |-> 2, ovf |-> FALSE]
        run == IF n = 0 \/ n = 1 THEN start ELSE BetterLoop(start, n, n - 1)
    IN  [val |-> IF n = 0 \/ n = 1 THEN U128(n) ELSE run.m1,
         ovf |-> run.ovf, work |-> run.i - 2]

\* ------------------------------------------------- index arithmetic ----
\* k - d on a u128 index: ovf when the true difference is below zero (a
\* panic with overflow checks, a wrap to 2^128 - (d - k) without).
SubIndex(k, d) == [val |-> IF k >= d THEN k - d ELSE 0, ovf |-> k < d]

\* --------------------------------------------------- backtrace_memo_fib ----
\* The recursion as a machine over a stack of frames (the top is the last).
\* A frame is at "entry" (the lookup of line 110), at "second" (the first
\* recursive call has returned) or at "add" (the second has returned).
\* ret is the value the last finished call returned; ins counts, per key,
\* the executions of memo.insert and count all of them; ovf records an
\* addition that left u128 or an index subtraction below zero; panicked a
\* panic on it (checks: the build has overflow checks).
Frame(k) == [n |-> k, pc |-> "entry", a |-> Zero]
Push(stack, k) == Append(stack, Frame(k))
Pop(stack) == SubSeq(stack, 1, Len(stack) - 1)
Top(stack) == stack[Len(stack)]
SetTop(stack, f) == [stack EXCEPT ![Len(stack)] = f]
Bump(cnt, k) == Put(cnt, k, IF k \in DOMAIN cnt THEN cnt[k] + 1 ELSE 1)

MemoMachine(table, k) ==
    [stack |-> <<Frame(k)>>, memo |-> table, ret |-> Zero, ins |-> EmptyMap,
     count |-> 0, ovf |-> FALSE, panicked |-> FALSE]
MemoIdle ==
    [stack |-> << >>, memo |-> EmptyMap, ret |-> Zero, ins |-> EmptyMap,
     count |-> 0, ovf |-> FALSE, panicked |-> FALSE]

\* memo.insert(fib_num, result); result
MemoInsertReturn(m, k, v) ==
    [m EXCEPT !.stack = Pop(m.stack), !.memo = Put(m.memo, k, v),
              !.ret = v, !.ins = Bump(m.ins, k), !.count = m.count + 1]

\* A lookup that never finds an entry (sensitivity of C6).
MemoLookupNever(m, k) == FALSE

\* Whether the lookup memo.get(&fib_num) finds an entry.
MemoLookupHit(m, k) == k \in DOMAIN m.memo

\* A faulty variant whose hit returns the value of the last finished call
\* instead of the stored entry (sensitivity of C9).
MemoEntryStaleHit(m, k) ==
    IF k \in DOMAIN m.memo
    THEN [m EXCEPT !.stack = Pop(m.stack)]
    ELSE IF k = 0 \/ k = 1 THEN MemoInsertReturn(m, k, U128(k))
    ELSE LET d == SubIndex(k, 1)
         IN  [m EXCEPT !.stack = Push(SetTop(m.stack,
                                        [Top(m.stack) EXCEPT !.pc = "second"]), d.val),
                       !.ovf = m.ovf \/ d.ovf]

\* match memo.get(&fib_num): Some(result) returns it; None computes 0 | 1
\* directly and otherwise starts the first recursive call, of n - 1.
MemoEntry(m, k) ==
    IF MemoLookupHit(m, k)
    THEN [m EXCEPT !.stack = Pop(m.stack), !.ret = m.memo[k]]
    ELSE IF k = 0 \/ k = 1 THEN MemoInsertReturn(m, k, U128(k))
    ELSE LET d == SubIndex(k, 1)
         IN  [m EXCEPT !.stack = Push(SetTop(m.stack,
                                        [Top(m.stack) EXCEPT !.pc = "second"]), d.val),
                       !.ovf = m.ovf \/ d.ovf]

\* The first call has returned: keep its value, start the call of n - 2.
MemoSecond(m, k) ==
    LET d == SubIndex(k, 2)
    IN  [m EXCEPT !.stack = Push(SetTop(m.stack,
                                   [Top(m.stack) EXCEPT !.pc = "add", !.a = m.ret]), d.val),
                  !.ovf = m.ovf \/ d.ovf]

\* Both calls have returned: add, insert under fib_num, return.
MemoAdd(m, k, checks) ==
    LET s == AddU128(Top(m.stack).a, m.ret)
    IN  IF s.ovf /\ checks
        THEN [m EXCEPT !.stack = << >>, !.ovf = TRUE, !.panicked = TRUE]
        ELSE [MemoInsertReturn(m, k, s.val) EXCEPT !.ovf = m.ovf \/ s.ovf]

BacktraceMemoFibStep(m, checks) ==
    IF m.stack = << >> THEN m
    ELSE LET f == Top(m.stack)
         IN  IF f.pc = "entry" THEN MemoEntry(m, f.n)
             ELSE IF f.pc = "second" THEN MemoSecond(m, f.n)
             ELSE MemoAdd(m, f.n, checks)

\* cnt steps; the first half is evaluated before the second starts.
RECURSIVE MemoSteps(_, _, _)
MemoSteps(m, checks, cnt) ==
    IF cnt = 0 THEN m
    ELSE IF cnt = 1 THEN BacktraceMemoFibStep(m, checks)
    ELSE LET half == MemoSteps(m, checks, cnt \div 2)
         IN  IF Len(half.stack) >= 0 THEN MemoSteps(half, checks, cnt - cnt \div 2)
             ELSE half

\* backtrace_memo_fib(table, n) run to its return: a call of n takes at most
\* 4 * n + 1 steps, and a step of a finished machine changes nothing.
BacktraceMemoFib(table, n, checks) ==
    MemoSteps(MemoMachine(table, n), checks, 4 * n + 1)

\* ------------------------------------------ the cache of #[cached] ----
\* cached::SizedCache as #[cached(size = 200)] sets it up: at most CacheSize
\* entries, a hit and a store make the key the most recently used, a store
\* of a new key into a full cache drops the least recently used. lru lists
\* the keys, most recently used first. clock and used are the time and each
\* key's last use; evicted counts the entries dropped.
EmptyCache ==
    [cache |-> EmptyMap, lru |-> << >>, clock |-> 0, used |-> EmptyMap,
     evicted |-> 0]
Without(seq, k) == SelectSeq(seq, LAMBDA y : y # k)
Touch(c, k) ==
    [c EXCEPT !.lru = <<k>> \o Without(c.lru, k), !.clock = c.clock + 1,
              !.used = Put(c.used, k, c.clock)]

\* cache_get(&key) on a key that is present.
CacheGet(c, k) == Touch(c, k)

\* The cache with its least recently used entry dropped.
EvictLRU(c) ==
    LET victim == c.lru[Len(c.lru)]
    IN  [c EXCEPT !.cache = Restrict(c.cache, DOMAIN c.cache \ {victim}),
                  !.used = Restrict(c.used, DOMAIN c.used \ {victim}),
                  !.lru = SubSeq(c.lru, 1, Len(c.lru) - 1),
                  !.evicted = c.evicted + 1]

\* cache_set(key, value)
CacheSet(c, k, v, size) ==
    LET room == IF k \notin DOMAIN c.cache /\ Len(c.lru) >= size
                THEN EvictLRU(c) ELSE c
    IN  Touch([room EXCEPT !.cache = Put(room.cache, k, v)], k)

\* ---------------------------------------------------------- cached_fib ----
\* The same machine as above over the cache of the process: store is the
\* cache, evals counts per index the evaluations of the function body and
\* count all of them.
CachedMachine ==
    [stack |-> << >>, store |-> EmptyCache, ret |-> Zero, evals |-> EmptyMap,
     count |-> 0, ovf |-> FALSE, panicked |-> FALSE]
CachedCall(c, k) == [c EXCEPT !.stack = Push(c.stack, k)]

\* The result is stored under the argument and returned.
CachedSetReturn(c, k, v) ==
    [c EXCEPT !.stack = Pop(c.stack), !.store = CacheSet(c.store, k, v, CacheSize),
              !.ret = v]

\* Whether the wrapper finds the argument in the cache.
CachedLookupHit(c, k) == k \in DOMAIN c.store.cache

\* The wrapper looks the argument up and returns a hit; on a miss the body
\* runs: 0 and 1 return fib_num, anything else calls cached_fib(fib_num - 1).
CachedEntry(c, k) ==
    IF CachedLookupHit(c, k)
    THEN [c EXCEPT !.stack = Pop(c.stack), !.store = CacheGet(c.store, k),
                   !.ret = c.store.cache[k]]
    ELSE LET e == [c EXCEPT !.evals = Bump(c.evals, k), !.count = c.count + 1]
         IN  IF k = 0 \/ k = 1 THEN CachedSetReturn(e, k, U128(k))
             ELSE LET d == SubIndex(k, 1)
                  IN  [e EXCEPT !.stack = Push(SetTop(e.stack,
                                                 [Top(e.stack) EXCEPT !.pc = "second"]), d.val),
                                !.ovf = e.ovf \/ d.ovf]

\* The first call has returned: keep its value, call cached_fib(fib_num - 2).
CachedSecond(c, k) ==
    LET d == SubIndex(k, 2)
    IN  [c EXCEPT !.stack = Push(SetTop(c.stack,
                                   [Top(c.stack) EXCEPT !.pc = "add", !.a = c.ret]), d.val),
                  !.ovf = c.ovf \/ d.ovf]

\* Both calls have returned: add; the wrapper stores the sum and returns it.
CachedAdd(c, k, checks) ==
    LET s == AddU128(Top(c.stack).a, c.ret)
    IN  IF s.ovf /\ checks
        THEN [c EXCEPT !.stack = << >>, !.ovf = TRUE, !.panicked = TRUE]
        ELSE [CachedSetReturn(c, k, s.val) EXCEPT !.ovf = c.ovf \/ s.ovf]

CachedFibStep(c, checks) ==
    IF c.stack = << >> THEN c
    ELSE LET f == Top(c.stack)
         IN  IF f.pc = "entry" THEN CachedEntry(c, f.n)
             ELSE IF f.pc = "second" THEN CachedSecond(c, f.n)
             ELSE CachedAdd(c, f.n, checks)

RECURSIVE CachedSteps(_, _, _)
CachedSteps(c, checks, cnt) ==
    IF cnt = 0 THEN c
    ELSE IF cnt = 1 THEN CachedFibStep(c, checks)
    ELSE LET half == CachedSteps(c, checks, cnt \div 2)
         IN  IF Len(half.stack) >= 0 THEN CachedSteps(half, checks, cnt - cnt \div 2)
             ELSE half

\* cached_fib(n) run to its return in a process whose cache is c.store.
CachedFib(c, n, checks) == CachedSteps(CachedCall(c, n), checks, 4 * n + 1)

\* ------------------------------------------------------------ state ----
VARIABLES
    args,      \* the positional arguments of the process (after args[0])
    checks,    \* whether the build panics on integer overflow
    pc,        \* the position of main, of the test or of the caller
    fib_num,   \* the index being solved
    run,       \* which call of solve_each is running (1..3; 4 after them)
    out,       \* the lines printed so far
    status,    \* "running", "ok" (normal return), or how the process died
    calls,     \* the number of solver calls started
    mm,        \* the machine of the running backtrace_memo_fib call
    cm,        \* the machine of cached_fib and the cache of the process
    mark,      \* cm.count when the running top-level cached_fib call began
    log,       \* the finished solver calls, in order
    res        \* the outcomes a test has collected, by solver

vars == <<args, checks, pc, fib_num, run, out, status, calls, mm, cm, mark,
          log, res>>

\* --------------------------------------------------------------- main ----
Line(kind, idx, desc) == [kind |-> kind, idx |-> idx, desc |-> desc]

\* Range checks off by one (sensitivity of C3 and C5).
TooSmallOffByOne(v) == LtU128(v, U128(LowerLimit - 1))
TooBigOffByOne(v) == LtU128(U128(UpperLimit + 1), v)

\* if fib_num < 2 ... else if fib_num > 186
TooSmall(v) == LtU128(v, U128(LowerLimit))
TooBig(v) == LtU128(U128(UpperLimit), v)
Admitted(v) == ~TooSmall(v) /\ ~TooBig(v)

\* main up to the first solve_each: the argument count, the parse with its
\* unwrap, the range check. a holds the positional arguments, so args.len()
\* is Len(a) + 1.
MainOutcome(a) ==
    IF Len(a) + 1 # 2
    THEN [pc |-> "exit", status |-> "ok", n |-> 0,
          out |-> <<Line("usage", 0, "Usage: n (positive integer from 2 to 186)")>>]
    ELSE LET p == ParseU128(a[1])
         IN  IF ~p.ok
             THEN [pc |-> "exit", status |-> "panic", n |-> 0,
                   out |-> <<Line("panic", 0,
                        "called Result::unwrap() on an Err value: ParseIntError")>>]
             ELSE IF TooSmall(p.val)
             THEN [pc |-> "exit", status |-> "ok", n |-> ToIndex(p.val),
                   out |-> <<Line("boring", ToIndex(p.val), "is really boring")>>]
             ELSE IF TooBig(p.val)
             THEN [pc |-> "exit", status |-> "ok", n |-> 0,
                   out |-> <<Line("too_big", 0, "too big to calculate Phi")>>]
             ELSE [pc |-> "backtrace", status |-> "running", n |-> ToIndex(p.val),
                   out |-> <<Line("banner", ToIndex(p.val),
                        "The first time solving will be the slowest")>>]

MainStart ==
    /\ pc = "start"
    /\ LET o == MainOutcome(args)
       IN  /\ pc' = o.pc
           /\ status' = o.status
           /\ fib_num' = o.n
           /\ out' = o.out
           /\ run' = IF o.pc = "exit" THEN 0 ELSE 1
    /\ UNCHANGED <<args, checks, calls, mm, cm, mark, log, res>>

\* ---------------------------------------------------------- solve_each ----
Entry(solver, arg, val, work, ovf) ==
    [solver |-> solver, run |-> run, arg |-> arg, val |-> val, work |-> work,
     ovf |-> ovf, evaluated |-> TRUE]

\* A solver call that panicked ends the process; otherwise the next line runs.
Continue(panicked, next) ==
    /\ pc' = IF panicked THEN "exit" ELSE next
    /\ status' = IF panicked THEN "panic" ELSE status

\* let _ = backtrace_fib(fib_num), evaluated for indices up to MaxNaive.
SolveBacktraceFib ==
    /\ pc = "backtrace"
    /\ LET r == IF fib_num <= MaxNaive THEN BacktraceFib(fib_num)
                ELSE [val |-> Zero, ovf |-> FALSE]
       IN  /\ log' = Append(log, [Entry("backtrace", fib_num, r.val, 0, r.ovf)
                                    EXCEPT !.evaluated = fib_num <= MaxNaive])
           /\ Continue(r.ovf /\ checks, "memo_call")
    /\ calls' = calls + 1
    /\ out' = Append(out, Line("result", fib_num, "simple backtracing/recursion"))
    /\ UNCHANGED <<args, checks, fib_num, run, mm, cm, mark, res>>

\* A harness that hands the table of the previous call on (sensitivity of C8).
HarnessTableReused(m) == m.memo

\* The table the harness hands to backtrace_memo_fib: &mut HashMap::new().
HarnessTable(m) == EmptyMap

SolveMemoCall ==
    /\ pc = "memo_call"
    /\ mm' = MemoMachine(HarnessTable(mm), fib_num)
    /\ pc' = "memo_run"
    /\ calls' = calls + 1
    /\ UNCHANGED <<args, checks, fib_num, run, out, status, cm, mark, log, res>>

\* One step of the running backtrace_memo_fib call.
MemoStep ==
    /\ mm.stack # << >>
    /\ mm' = BacktraceMemoFibStep(mm, checks)
    /\ UNCHANGED <<args, checks, pc, fib_num, run, out, status, calls, cm, mark,
                   log, res>>

SolveMemoReturn ==
    /\ pc = "memo_run"
    /\ mm.stack = << >>
    /\ log' = Append(log, Entry("memo", fib_num, mm.ret, mm.count, mm.ovf))
    /\ Continue(mm.panicked, "dynamic")
    /\ out' = Append(out, Line("result", fib_num,
                               "backtracing/recursion with memoization"))
    /\ UNCHANGED <<args, checks, fib_num, run, calls, mm, cm, mark, res>>

SolveDynamicFib ==
    /\ pc = "dynamic"
    /\ LET r == DynamicFib(fib_num)
       IN  /\ log' = Append(log, Entry("dynamic", fib_num, r.val, r.work, r.ovf))
           /\ Continue(r.ovf /\ checks, "better")
    /\ calls' = calls + 1
    /\ out' = Append(out, Line("result", fib_num,
                               "dynamic programming with memoization via HashMap"))
    /\ UNCHANGED <<args, checks, fib_num, run, mm, cm, mark, res>>

SolveBetterDynamicFib ==
    /\ pc = "better"
    /\ LET r == BetterDynamicFib(fib_num)
       IN  /\ log' = Append(log, Entry("better", fib_num, r.val, r.work, r.ovf))
           /\ Continue(r.ovf /\ checks, "cached_call")
    /\ calls' = calls + 1
    /\ out' = Append(out, Line("result", fib_num,
                               "dynamic programming with memoization via tuple"))
    /\ UNCHANGED <<args, checks, fib_num, run, mm, cm, mark, res>>

SolveCachedCall ==
    /\ pc = "cached_call"
    /\ cm' = CachedCall(cm, fib_num)
    /\ mark' = cm.count
    /\ pc' = "cached_run"
    /\ calls' = calls + 1
    /\ UNCHANGED <<args, checks, fib_num, run, out, status, mm, log, res>>

\* One step of the running cached_fib call.
CachedStep ==
    /\ cm.stack # << >>
    /\ cm' = CachedFibStep(cm, checks)
    /\ UNCHANGED <<args, checks, pc, fib_num, run, out, status, calls, mm, mark,
                   log, res>>

\* The last line of solve_each; main goes on to the next solve_each (printing
\* its second banner after the first) or to its own calls of cached_fib.
SolveCachedReturn ==
    /\ pc = "cached_run"
    /\ cm.stack = << >>
    /\ log' = Append(log, Entry("cached", fib_num, cm.ret, cm.count - mark, cm.ovf))
    /\ Continue(cm.panicked, IF run < 3 THEN "backtrace" ELSE "answer_call")
    /\ run' = IF cm.panicked THEN run ELSE run + 1
    /\ out' = out \o <<Line("result", fib_num, "cached function"), Line("blank", 0, "")>>
                  \o IF run = 1 /\ ~cm.panicked
                     THEN <<Line("banner", fib_num, "What about solving it a second or third time")>>
                     ELSE << >>
    /\ UNCHANGED <<args, checks, fib_num, calls, mm, cm, mark, res>>

\* ------------------------------------- main after the three solve_each ----
\* A denominator index taken above fib_num (sensitivity of C10).
PhiDenIndexUp(n) == [val |-> n + 1, ovf |-> FALSE]

\* The index of the denominator of phi: fib_num - 1.
PhiDenIndex(n) == SubIndex(n, 1)

\* let answer = cached_fib(fib_num); then cached_fib(fib_num) and
\* cached_fib(fib_num - 1) for phi. A subtraction below zero panics with
\* overflow checks; without them the index wraps to 2^128 - 1 and the
\* recursion on it exhausts the stack: the process dies either way.
MainCachedCall ==
    /\ pc \in {"answer_call", "phi_num_call", "phi_den_call"}
    /\ LET d == IF pc = "phi_den_call" THEN PhiDenIndex(fib_num)
                ELSE [val |-> fib_num, ovf |-> FALSE]
       IN  /\ cm' = IF d.ovf THEN [cm EXCEPT !.ovf = TRUE] ELSE CachedCall(cm, d.val)
           /\ pc' = IF d.ovf THEN "exit"
                    ELSE IF pc = "answer_call" THEN "answer_run"
                    ELSE IF pc = "phi_num_call" THEN "phi_num_run" ELSE "phi_den_run"
           /\ status' = IF ~d.ovf THEN status
                        ELSE IF checks THEN "panic" ELSE "stack_overflow"
    /\ mark' = cm.count
    /\ calls' = calls + 1
    /\ UNCHANGED <<args, checks, fib_num, run, out, mm, log, res>>

MainCachedReturn ==
    /\ pc \in {"answer_run", "phi_num_run", "phi_den_run"}
    /\ cm.stack = << >>
    /\ log' = Append(log, Entry("cached", IF pc = "phi_den_run" THEN PhiDenIndex(fib_num).val ELSE fib_num,
                                  cm.ret, cm.count - mark, cm.ovf))
    /\ Continue(cm.panicked, IF pc = "answer_run" THEN "phi_num_call"
                             ELSE IF pc = "phi_num_run" THEN "phi_den_call"
                             ELSE "report")
    /\ UNCHANGED <<args, checks, fib_num, run, out, calls, mm, cm, mark, res>>

MainReport ==
    /\ pc = "report"
    /\ out' = Append(out, Line("phi", fib_num, "approximates phi"))
    /\ pc' = "exit"
    /\ status' = "ok"
    /\ UNCHANGED <<args, checks, fib_num, run, calls, mm, cm, mark, log, res>>

\* ------------------------------------------------- the process of main ----
Chars(digits) == [i \in 1 .. Len(digits) |-> DigitChars[digits[i] + 1]]
\* 2^128 - 1 and 2^128 in decimal.
TextU128Max == Chars(<<3,4,0,2,8,2,3,6,6,9,2,0,9,3,8,4,6,3,4,6,3,3,7,4,6,0,7,4,3,
                       1,7,6,8,2,1,1,4,5,5>>)
TextU128Over == Chars(<<3,4,0,2,8,2,3,6,6,9,2,0,9,3,8,4,6,3,4,6,3,3,7,4,6,0,7,4,3,
                        1,7,6,8,2,1,1,4,5,6>>)
ArgTexts ==
    { <<"0">>, <<"1">>, <<"2">>, <<"3">>, <<"1", "0">>, <<"2", "0">>,
      <<"1", "8", "5">>, <<"1", "8", "6">>, <<"1", "8", "7">>, <<"+", "7">>,
      <<"0", "0", "5">>, << >>, <<"+">>, <<"-", "5">>, <<"2", "x">>, <<" ", "4">>,
      TextU128Max, TextU128Over }
ArgVectors == UNION {[1 .. k -> ArgTexts] : k \in 0 .. MaxArgs}

Idle ==
    /\ run = 0
    /\ out = << >>
    /\ status = "running"
    /\ calls = 0
    /\ mm = MemoIdle
    /\ cm = CachedMachine
    /\ mark = 0
    /\ log = << >>
    /\ res = EmptyMap

Init ==
    /\ args \in ArgVectors
    /\ checks \in BOOLEAN
    /\ pc = "start"
    /\ fib_num = 0
    /\ Idle

Next ==
    \/ MainStart
    \/ SolveBacktraceFib
    \/ SolveMemoCall
    \/ MemoStep
    \/ SolveMemoReturn
    \/ SolveDynamicFib
    \/ SolveBetterDynamicFib
    \/ SolveCachedCall
    \/ CachedStep
    \/ SolveCachedReturn
    \/ MainCachedCall
    \/ MainCachedReturn
    \/ MainReport

Spec == Init /\ [][Next]_vars

\* ------------------------------------------- the solvers as functions ----
\* Every solver applied to one index n and to the indices just below it, as
\* test_each_version applies them to 20: each call in a process of its own
\* (an empty table, an empty cache).
MaxIndex == UpperLimit + MaxBeyond
Around(n) == {k \in {n - 2, n - 1, n} : k >= 0}

Outcome(val, ovf, work) ==
    [val |-> val, ovf |-> ovf, panicked |-> ovf /\ checks, work |-> work,
     done |-> TRUE]
MachineOutcome(m) ==
    [val |-> m.ret, ovf |-> m.ovf, panicked |-> m.panicked, work |-> m.count,
     done |-> m.stack = << >>]

\* A table holding dynamic_fib's entries for the indices in keys.
Prepopulated(n, keys) == Restrict(DynamicFib(n).memo, keys)
PreSets(n) ==
    IF n <= MaxPre THEN SUBSET (0 .. n - 1)
    ELSE {{}, {n - 1}, {n - 2}, {n - 2, n - 1}, 0 .. n \div 2, 0 .. n - 1}

TestStep(from, to, solver, outcomes) ==
    /\ pc = from
    /\ pc' = to
    /\ res' = Put(res, solver, outcomes)
    /\ calls' = calls + 1
    /\ UNCHANGED <<args, checks, fib_num, run, out, status, mm, cm, mark, log>>

TestBacktraceFib ==
    TestStep("t_backtrace", "t_memo", "backtrace",
             [k \in Around(fib_num) \cap (0 .. MaxNaive) |->
                LET r == BacktraceFib(k) IN Outcome(r.val, r.ovf, 0)])

TestBacktraceMemoFib ==
    TestStep("t_memo", "t_dynamic", "memo",
             [k \in Around(fib_num) |->
                MachineOutcome(BacktraceMemoFib(EmptyMap, k, checks))])

TestDynamicFib ==
    TestStep("t_dynamic", "t_better", "dynamic",
             [k \in Around(fib_num) |->
                LET r == DynamicFib(k) IN Outcome(r.val, r.ovf, r.work)])

TestBetterDynamicFib ==
    TestStep("t_better", "t_cached", "better",
             [k \in Around(fib_num) |->
                LET r == BetterDynamicFib(k) IN Outcome(r.val, r.ovf, r.work)])

TestCachedFib ==
    TestStep("t_cached", "t_memo_pre", "cached",
             [k \in Around(fib_num) |->
                MachineOutcome(CachedFib(CachedMachine, k, checks))])

\* backtrace_memo_fib on a table that already holds entries below n.
TestMemoPrepopulated ==
    \E keys \in PreSets(fib_num) :
        TestStep("t_memo_pre", "t_done", "memo_pre",
                 [keys |-> keys,
                  got |-> MachineOutcome(BacktraceMemoFib(
                              Prepopulated(fib_num, keys), fib_num, checks))])

InitFn ==
    /\ args = << >>
    /\ checks \in BOOLEAN
    /\ pc = "t_backtrace"
    /\ Idle
    /\ fib_num \in 0 .. MaxIndex

NextFn ==
    \/ TestBacktraceFib
    \/ TestBacktraceMemoFib
    \/ TestDynamicFib
    \/ TestBetterDynamicFib
    \/ TestCachedFib
    \/ TestMemoPrepopulated

SpecFn == InitFn /\ [][NextFn]_vars

\* ------------------------------- one call of backtrace_memo_fib, stepwise ----
\* The caller's table: empty, or dynamic_fib's entries for some indices
\* below n (every subset for n up to MaxPre).
CallerTables(n) ==
    IF n <= MaxPre THEN SUBSET (0 .. n - 1) ELSE {{}, {n - 2}}

InitMemo ==
    /\ args = << >>
    /\ checks \in BOOLEAN
    /\ pc = "memo_run"
    /\ run = 0
    /\ out = << >>
    /\ status = "running"
    /\ calls = 1
    /\ cm = CachedMachine
    /\ mark = 0
    /\ log = << >>
    /\ res = EmptyMap
    /\ fib_num \in 0 .. MaxIndex
    /\ \E keys \in CallerTables(fib_num) :
          mm = MemoMachine(Prepopulated(fib_num, keys), fib_num)

SpecMemo == InitMemo /\ [][MemoStep]_vars

\* ------------------------------------ a free sequence of cached_fib calls ----
\* Arguments around the capacity of the cache, and the two base cases.
CallArgs == {0, 1} \cup (CacheSize - 1 .. CacheSize + MaxOver)

CallCachedFib ==
    /\ pc = "caller"
    /\ cm.stack = << >>
    /\ ~cm.panicked
    /\ calls < MaxTopCalls
    /\ \E k \in CallArgs :
          /\ cm' = CachedCall(cm, k)
          /\ fib_num' = k
    /\ mark' = cm.count
    /\ calls' = calls + 1
    /\ UNCHANGED <<args, checks, pc, run, out, status, mm, log, res>>

InitCalls ==
    /\ args = << >>
    /\ checks \in BOOLEAN
    /\ pc = "caller"
    /\ fib_num = 0
    /\ Idle

NextCalls ==
    \/ CallCachedFib
    \/ CachedStep

SpecCalls == InitCalls /\ [][NextCalls]_vars

\* ======================================================== properties ====
Solvers == {"backtrace", "memo", "dynamic", "better", "cached"}
Recorded == DOMAIN res \cap Solvers

\* C1 (SpecFn): for every index up to 186 all solver variants return the
\* same value: any two solvers whose outcome for an index k <= 186 is
\* recorded returned normally with equal values (backtrace_fib for k up to
\* MaxNaive), the table and the pair variant of the iteration among them.
C1_AllSolversAgree ==
    \A s \in Recorded : \A t \in Recorded :
        \A k \in DOMAIN res[s] \cap DOMAIN res[t] :
            k <= UpperLimit =>
                /\ res[s][k].done /\ ~res[s][k].panicked
                /\ res[s][k].val = res[t][k].val

C1_Witness ==
    /\ pc = "t_done"
    /\ Recorded = Solvers
    /\ fib_num \in DOMAIN res["backtrace"]
    /\ fib_num >= 20
    /\ res["backtrace"][fib_num].val = res["cached"][fib_num].val
    /\ res["dynamic"][fib_num].val = res["better"][fib_num].val

\* C2 (SpecFn): each solver computes the Fibonacci function: 0 at 0, 1 at 1,
\* solver(k) = solver(k - 1) + solver(k - 2) for k in 2..186 with the sum
\* inside u128, and 55, 6765 and 832040 at 10, 20 and 30.
C2_SolversComputeFibonacci ==
    \A s \in Recorded : \A k \in DOMAIN res[s] :
        k <= UpperLimit =>
            /\ res[s][k].done /\ ~res[s][k].panicked
            /\ k = 0 => res[s][k].val = U128(0)
            /\ k = 1 => res[s][k].val = U128(1)
            /\ (k >= 2 /\ {k - 1, k - 2} \subseteq DOMAIN res[s]) =>
                   LET sum == AddU128(res[s][k - 1].val, res[s][k - 2].val)
                   IN  ~sum.ovf /\ res[s][k].val = sum.val
            /\ k = 10 => res[s][k].val = U128(55)
            /\ k = 20 => res[s][k].val = U128(6765)
            /\ k = 30 => res[s][k].val = U128(832040)

C2_Witness ==
    /\ pc = "t_done"
    /\ Recorded = Solvers
    /\ fib_num = 20
    /\ \A s \in Solvers : {18, 19, 20} \subseteq DOMAIN res[s]
    /\ \A s \in Solvers : res[s][20].val = U128(6765)

\* C3 (Spec): main calls a solver only when given exactly one positional
\* argument that parses to n with 2 <= n <= 186; with another number of
\* arguments it prints the usage line and returns normally, with n < 2 or
\* n > 186 it prints the decline line and returns normally, in both cases
\* without having called a solver.
C3_SolversOnlyForAdmittedInput ==
    LET one == Len(args) = 1
        p == IF one THEN ParseU128(args[1]) ELSE [ok |-> FALSE, val |-> Zero]
        small == p.ok /\ p.val \in {U128(0), U128(1)}
        big == p.ok /\ ~(FitsIndex(p.val) /\ ToIndex(p.val) <= 186)
        declined(kind) == /\ pc = "exit" /\ status = "ok" /\ calls = 0
                          /\ Len(out) = 1 /\ out[1].kind = kind
    IN  /\ calls > 0 => /\ one /\ p.ok /\ FitsIndex(p.val)
                        /\ fib_num = ToIndex(p.val)
                        /\ 2 <= fib_num /\ fib_num <= 186
        /\ (pc # "start" /\ ~one) => declined("usage")
        /\ (pc # "start" /\ one /\ small) => declined("boring")
        /\ (pc # "start" /\ one /\ big) => declined("too_big")

C3_Witness ==
    /\ pc = "exit"
    /\ args = << <<"1", "8", "7">> >>
    /\ status = "ok"
    /\ calls = 0
    /\ out[1].kind = "too_big"

\* C4 (Spec), as claimed: when the one positional argument does not parse,
\* main ends with a message of its own about the argument, not with the
\* generic error of the failed parse propagated by a panic, and without
\* having called a solver.
C4_ParseFailureReported ==
    (pc = "exit" /\ Len(args) = 1 /\ ~ParseU128(args[1]).ok) =>
        /\ calls = 0
        /\ status # "panic"
        /\ out # << >> /\ out[Len(out)].kind # "panic"

\* C5 (SpecFn): for every index main admits no solver call overflows (no
\* addition leaves u128, no index subtraction goes below zero, nothing
\* panics), and neither does main's own fib_num - 1; whereas the result for
\* 187 leaves u128, in every solver.
C5_NoOverflowInAdmittedRange ==
    /\ \A s \in Recorded : \A k \in DOMAIN res[s] :
           /\ Admitted(U128(k)) => ~res[s][k].ovf /\ ~res[s][k].panicked
           /\ k = 187 => res[s][k].ovf /\ (res[s][k].panicked <=> checks)
    /\ Admitted(U128(fib_num)) => ~PhiDenIndex(fib_num).ovf
    /\ \A k \in 2 .. 186 : k \in Around(fib_num) => Admitted(U128(k))

C5_Witness ==
    /\ pc = "t_done"
    /\ fib_num = 187
    /\ \A s \in Solvers \ {"backtrace"} :
           /\ ~res[s][186].ovf
           /\ res[s][187].ovf
    /\ Admitted(U128(186))
    /\ ~Admitted(U128(187))

\* C6 (SpecMemo): during a call of backtrace_memo_fib on the caller's table
\* an entry of the table never changes or disappears, an index is inserted
\* at most once and only while absent, and a request for an index that is
\* present returns the stored value without recursing or inserting.
C6_MemoComputesEachIndexOnce ==
    [][ /\ \A k \in DOMAIN mm.memo :
               k \in DOMAIN mm'.memo /\ mm'.memo[k] = mm.memo[k]
        /\ \A k \in DOMAIN mm'.ins :
               /\ mm'.ins[k] <= 1
               /\ (k \notin DOMAIN mm.ins) => k \notin DOMAIN mm.memo
        /\ (mm.stack # << >> /\ Top(mm.stack).pc = "entry"
                /\ Top(mm.stack).n \in DOMAIN mm.memo) =>
               /\ mm'.ret = mm.memo[Top(mm.stack).n]
               /\ mm'.stack = Pop(mm.stack)
               /\ mm'.ins = mm.ins /\ mm'.memo = mm.memo
      ]_vars

C6_Witness ==
    /\ mm.stack = << >>
    /\ ~mm.panicked
    /\ fib_num = 186
    /\ DOMAIN mm.memo = 0 .. 186
    /\ DOMAIN mm.ins = (0 .. 186) \ {184}
    /\ mm.count = 186

\* C7 (SpecCalls): over any sequence of cached_fib calls, nested ones
\* included, the cache never holds more than 200 entries; an entry leaves it
\* only when a new key is stored into the full cache, and then exactly one
\* leaves, the one used least recently; and every call that returns has its
\* result in the cache under its argument.
C7_CacheBoundedLRU ==
    [][ LET old == cm.store
            new == cm'.store
            gone == DOMAIN old.cache \ DOMAIN new.cache
            added == DOMAIN new.cache \ DOMAIN old.cache
        IN  /\ Cardinality(DOMAIN new.cache) <= 200
            /\ gone # {} =>
                   /\ Cardinality(gone) = 1 /\ Cardinality(added) = 1
                   /\ Cardinality(DOMAIN old.cache) = 200
                   /\ \A g \in gone : \A k \in DOMAIN old.cache :
                          old.used[g] <= old.used[k]
            /\ (added # {} /\ Cardinality(DOMAIN old.cache) = 200) => gone # {}
            /\ (Len(cm'.stack) < Len(cm.stack) /\ ~cm'.panicked) =>
                   LET k == Top(cm.stack).n
                   IN  k \in DOMAIN new.cache /\ new.cache[k] = cm'.ret
      ]_vars

C7_Witness ==
    /\ cm.stack = << >>
    /\ ~cm.panicked
    /\ calls = 2
    /\ fib_num = 0
    /\ cm.store.evicted = 4
    /\ Cardinality(DOMAIN cm.store.cache) = 200
    /\ {1, 2, 3} \cap DOMAIN cm.store.cache = {}
    /\ cm.store.cache[0] = U128(0)
    /\ cm.store.lru[1] = 0

\* C8 (Spec): over the calls main makes, every call of cached_fib after the
\* first with the same argument returns the same value with no evaluation of
\* the function body, while backtrace_memo_fib, dynamic_fib and
\* better_dynamic_fib return the same value and redo the same amount of work
\* (insertions, loop passes), more than none, on every call.
C8_OnlyTheCacheSurvives ==
    \A i \in 1 .. Len(log) : \A j \in 1 .. Len(log) :
        (i < j /\ log[i].solver = log[j].solver /\ log[i].arg = log[j].arg
               /\ log[i].solver # "backtrace") =>
            /\ log[j].val = log[i].val
            /\ log[i].solver = "cached" => log[j].work = 0
            /\ log[i].solver # "cached" =>
                   log[j].work = log[i].work /\ log[j].work > 0

C8_Witness ==
    /\ pc = "exit"
    /\ status = "ok"
    /\ fib_num = 186
    /\ Len(log) = 18
    /\ log[5].solver = "cached" /\ log[5].work = 187
    /\ log[10].solver = "cached" /\ log[10].work = 0
    /\ log[2].solver = "memo" /\ log[12].solver = "memo" /\ log[12].work = 187

\* C9 (SpecFn): for every index up to 186, backtrace_memo_fib on a table
\* that already holds correct entries for some indices below n returns what
\* it returns on an empty table.
C9_PrepopulatedTableSameResult ==
    (pc = "t_done" /\ fib_num <= UpperLimit) =>
        /\ res["memo_pre"].got.done /\ ~res["memo_pre"].got.panicked
        /\ res["memo_pre"].got.val = res["memo"][fib_num].val

C9_Witness ==
    /\ pc = "t_done"
    /\ fib_num = 186
    /\ res["memo_pre"].keys = {184}
    /\ res["memo_pre"].got.work = 186
    /\ res["memo_pre"].got.val = res["memo"][186].val

\* C10 (Spec): in every state of a run of main the cache of cached_fib holds
\* only keys in 0..n, so at most n + 1 <= 187 entries, fewer than its
\* capacity of 200; no entry has been evicted; and the body of cached_fib has
\* been evaluated at most once for each index.
C10_CacheNeverFullInMain ==
    /\ DOMAIN cm.store.cache \subseteq 0 .. fib_num
    /\ Cardinality(DOMAIN cm.store.cache) <= fib_num + 1
    /\ fib_num + 1 <= 187
    /\ Cardinality(DOMAIN cm.store.cache) < 200
    /\ cm.store.evicted = 0
    /\ \A k \in DOMAIN cm.evals : cm.evals[k] <= 1

C10_Witness ==
    /\ pc = "exit"
    /\ status = "ok"
    /\ fib_num = 186
    /\ DOMAIN cm.store.cache = 0 .. 186
    /\ \A k \in 0 .. 186 : cm.evals[k] = 1

====
